---- MODULE Spec2Model ----
(***************************************************************************)
(* Model of the content-moderation HTTP front-end of src/main.go.          *)
(*                                                                         *)
(* src/main.go holds two revisions of the program.  The model follows the  *)
(* later, config-driven one (lines 193-425).  The earlier one (lines       *)
(* 1-191) has the same handlers with a constant backend URL, a fixed       *)
(* prompt and an unchecked body decode; analyzeMessage's status check      *)
(* (108-112) and handleOllamaHealth (145-169) are the same in both.        *)
(*                                                                         *)
(* One handler invocation is one record of h.  A handler runs atomically   *)
(* from one blocking backend call (http.DefaultClient.Do) to the next:     *)
(* Arrive runs mux, corsMiddleware and the handler up to its first call,   *)
(* a Reply/Abort action runs it from the return of Do to the next call or  *)
(* to the handler's return.                                                *)
(***************************************************************************)
EXTENDS Integers, Sequences, FiniteSets, TLC

VARIABLES cfg, h

vars == <<cfg, h>>

(* ------------------------------ bounds -------------------------------- *)

\* longest message list of an analyze request
MaxMsgs == 2
\* number of connections the server handles
NumReqs == 2

Reqs == 1..NumReqs

(* ------------------------- net/http status codes ----------------------- *)

StatusOK == 200
StatusBadRequest == 400
StatusMethodNotAllowed == 405
StatusBadGateway == 502
StatusServiceUnavailable == 503

(* ----------------------------- configuration -------------------------- *)

\* ollama_url values loadConfig accepts (any non-empty string): one that
\* url.Parse accepts and one it rejects ("first path segment in URL cannot
\* contain colon").
GoodURL == "http://localhost:11434"
BadURL == "localhost:11434"

\* prompt_template values loadConfig accepts: one that renders for every
\* message, one text/template cannot parse, one whose execution fails on
\* messages shorter than its slice bound.
PlainTemplate == "User input: {{.Message}}"
MalformedTemplate == "User input: {{.Message"
SliceTemplate == "User input: {{slice .Message 0 8}}"

Policies == <<"hate/harassment", "self-harm encouragement">>

Config ==
  [ollama_url : {GoodURL, BadURL},
   prompt_template : {PlainTemplate, MalformedTemplate, SliceTemplate},
   policies : {Policies}]

\* url.Parse inside http.NewRequestWithContext, on <base> + "/api/...".
URLParses(url) == url = GoodURL

(* ------------------------------ messages ------------------------------ *)

ShortMessage == "hi"
LongMessage == "Go to the zoo and steal one!"
Messages == {ShortMessage, LongMessage}

RECURSIVE SeqsUpTo(_, _)
SeqsUpTo(S, n) ==
  IF n = 0 THEN {<<>>}
  ELSE LET shorter == SeqsUpTo(S, n - 1)
       IN shorter \cup {Append(s, x) : s \in {t \in shorter : Len(t) = n - 1}, x \in S}

MessageLists == SeqsUpTo(Messages, MaxMsgs)

(* --------------------------- incoming requests ------------------------ *)

\* Request bodies, by what json.Decoder.Decode does with them:
\*   "empty"    no body at all (Decode: io.EOF)
\*   "garbage"  not JSON (Decode: syntax error)
\*   "mistyped" {"messages": "x"} (Decode: UnmarshalTypeError)
\*   "nofield"  {} (Decode succeeds, Messages stays nil)
\*   "object"   {"messages": [...]} with the given list, possibly empty
RequestBodies ==
  {[kind |-> k, messages |-> <<>>] : k \in {"empty", "garbage", "mistyped", "nofield"}}
    \cup {[kind |-> "object", messages |-> ms] : ms \in MessageLists}

Requests ==
  [route : {"/", "/api/health", "/api/analyze"},
   method : {"GET", "POST", "OPTIONS"},
   body : RequestBodies]

NoRequest == [route |-> "", method |-> "", body |-> [kind |-> "empty", messages |-> <<>>]]

(* ----------------------------- backend replies ------------------------ *)

\* The text of the backend's "response" field, as a JSON shape:
\*   "raw"    not JSON (prose)
\*   "empty"  the empty string (also: the field is absent from the body)
\*   "null"   the JSON value null
\*   "array"  valid JSON that is not an object
\*   "object" an object; safe and vp say what each field holds
Text(kind, safe, vp) == [kind |-> kind, safe |-> safe, vp |-> vp]

NoText == Text("empty", "absent", "absent")

Texts ==
  {Text("raw", "absent", "absent"),
   NoText,
   Text("null", "absent", "absent"),
   Text("array", "absent", "absent"),
   Text("object", "absent", "absent"),
   Text("object", "true", "absent"),
   Text("object", "absent", "[hate]"),
   Text("object", "string", "[]"),
   Text("object", "true", "[]"),
   Text("object", "false", "[hate,self-harm]")}

PolicyItems(tok) ==
  CASE tok = "[hate]" -> <<"hate/harassment">>
    [] tok = "[hate,self-harm]" -> <<"hate/harassment", "self-harm encouragement">>
    [] OTHER -> <<>>

ListToks == {"[]", "[hate]", "[hate,self-harm]"}

\* What http.DefaultClient.Do hands back: an error ("transport": the
\* connection failed; "ctx": the request's context was cancelled) or a
\* response with a status code and a body.  decodable/text describe a
\* generate body, payload a version body.
Reply(kind, code, decodable, text, payload) ==
  [kind |-> kind, code |-> code, decodable |-> decodable, text |-> text, payload |-> payload]

TransportError == Reply("transport", 0, FALSE, NoText, "")
CtxError == Reply("ctx", 0, FALSE, NoText, "")
NoReply == Reply("none", 0, FALSE, NoText, "")

GenerateReplies ==
  {TransportError,
   Reply("http", 500, FALSE, NoText, ""),
   Reply("http", StatusOK, FALSE, NoText, "")}
    \cup {Reply("http", StatusOK, TRUE, t, "") : t \in Texts}

VersionReplies ==
  {TransportError}
    \cup {Reply("http", c, FALSE, NoText, p) : c \in {StatusOK, 500, 404}, p \in {"0.5.1", "oops"}}

(* ------------------------- one handler invocation --------------------- *)

\* The response body written so far.
Out(kind, msg, code, payload, items) ==
  [kind |-> kind, msg |-> msg, code |-> code, payload |-> payload, items |-> items]

NoOutput == Out("none", "", 0, "", <<>>)

\* phase: "idle"  no request on this connection
\*        "wait"  handleAnalyze blocked in analyzeMessage's Do (generate)
\*        "hwait" handleOllamaHealth blocked in Do (version)
\*        "done"  the handler returned
\*        "panic" the handler goroutine panicked; net/http aborts the
\*                connection without a response
\* calls: the backend calls of this request that are in flight
\* posts: per message, the POSTs sent to /api/generate; vcalls: the GETs
\*        sent to /api/version
\* trace: per message handled so far, what happened to it (history)
\* opened/closed: backend response bodies received / closed
Idle ==
  [phase |-> "idle", req |-> NoRequest, ctxDone |-> FALSE, bodyRead |-> FALSE,
   headers |-> {}, status |-> 0, out |-> NoOutput,
   messages |-> <<>>, idx |-> 0, results |-> <<>>,
   calls |-> {}, posts |-> <<>>, vcalls |-> 0, trace |-> <<>>,
   opened |-> 0, closed |-> 0]

Call(op, i) == [op |-> op, i |-> i]

TraceEntry(step, reply, kept) == [step |-> step, reply |-> reply, kept |-> kept]

\* http.Error: plain-text body, the given status, the handler returns.
httpError(w, msg, code) ==
  [w EXCEPT !.headers = @ \cup {"Content-Type: text/plain; charset=utf-8"},
            !.status = code,
            !.out = Out("text", msg, 0, "", <<>>),
            !.phase = "done"]

\* r.Context() as handed to http.NewRequestWithContext: done once the
\* client has gone away.
\* Variant: the backend request is built on context.Background().
requestContext_background(st) == FALSE

requestContext(st) == st.ctxDone

(* ------------------------------ generatePrompt ------------------------ *)

generatePrompt(message, policies, promptTemplate) ==
  IF promptTemplate = MalformedTemplate
  THEN [err |-> TRUE, prompt |-> <<>>]
  ELSE IF promptTemplate = SliceTemplate /\ message = ShortMessage
  THEN [err |-> TRUE, prompt |-> <<>>]
  ELSE [err |-> FALSE, prompt |-> <<promptTemplate, message>>]

(* ------------------------------ analyzeMessage ------------------------ *)

AnalysisResult(content, safe, policies) ==
  [content |-> content, is_safe |-> safe, violated_policies |-> policies]

NilPolicies == [null |-> TRUE, items |-> <<>>]

\* json.Unmarshal([]byte(text), &modResult) into moderationResult: an
\* absent or null field leaves the zero value, a field of the wrong type
\* is an error, anything but an object or null is an error.
Unmarshal(text) ==
  LET zero == [err |-> FALSE, Safe |-> FALSE, ViolatedPolicies |-> NilPolicies]
  IN CASE text.kind \in {"raw", "empty", "array"} -> [zero EXCEPT !.err = TRUE]
       [] text.kind = "null" -> zero
       [] OTHER ->
            [err |-> text.safe = "string" \/ text.vp = "string",
             Safe |-> text.safe = "true",
             ViolatedPolicies |->
               IF text.vp \in ListToks
               THEN [null |-> FALSE, items |-> PolicyItems(text.vp)]
               ELSE NilPolicies]

\* analyzeMessage from the return of Do to its own return: the error, the
\* result, and the response bodies it received and closed.
analyzeMessageReturn(message, reply) ==
  LET failed == [err |-> TRUE, result |-> AnalysisResult("", FALSE, NilPolicies),
                 opened |-> 0, closed |-> 0]
  IN IF reply.kind # "http" THEN failed
     ELSE IF reply.code # StatusOK THEN [failed EXCEPT !.opened = 1]
     ELSE IF ~reply.decodable THEN [failed EXCEPT !.opened = 1, !.closed = 1]
     ELSE LET m == Unmarshal(reply.text)
          IN IF m.err THEN [failed EXCEPT !.opened = 1, !.closed = 1]
             ELSE [err |-> FALSE,
                   result |-> AnalysisResult(message, m.Safe, m.ViolatedPolicies),
                   opened |-> 1, closed |-> 1]

(* ------------------------------ handleAnalyze ------------------------- *)

\* json.NewDecoder(r.Body).Decode(&req)
DecodeRequest(body) ==
  [err |-> body.kind \in {"empty", "garbage", "mistyped"},
   Messages |-> IF body.kind = "object" THEN body.messages ELSE <<>>]

\* results = append(results, result)
\* Variant: the new result goes in front.
appendResult_prepend(results, result) == <<result>> \o results

appendResult(results, result) == Append(results, result)

\* The loop body after analyzeMessage returned ret for message st.idx.
\* Variant: the error branch lacks its continue.
collect_keepFailed(st, ret, entry) ==
  [st EXCEPT !.results = appendResult(@, ret.result),
             !.trace = Append(@, [entry EXCEPT !.kept = TRUE]),
             !.opened = @ + ret.opened,
             !.closed = @ + ret.closed,
             !.idx = @ + 1]

collect(st, ret, entry) ==
  [st EXCEPT !.results = IF ret.err THEN @ ELSE appendResult(@, ret.result),
             !.trace = Append(@, [entry EXCEPT !.kept = ~ret.err]),
             !.opened = @ + ret.opened,
             !.closed = @ + ret.closed,
             !.idx = @ + 1]

\* json.NewEncoder(w).Encode(results) after the loop.
encodeResults(st) ==
  [st EXCEPT !.headers = @ \cup {"Content-Type: application/json"},
             !.status = StatusOK,
             !.out = Out("json", "", 0, "", st.results),
             !.phase = "done"]

\* Do for message st.idx: the POST goes out and the handler blocks.
\* Variant: the call is started without waiting for it.
issueGenerate_async(st) ==
  [st EXCEPT !.posts[st.idx] = @ + 1,
             !.calls = @ \cup {Call("generate", st.idx)},
             !.idx = @ + 1]

issueGenerate(st) ==
  [st EXCEPT !.posts[st.idx] = @ + 1,
             !.calls = @ \cup {Call("generate", st.idx)},
             !.phase = "wait"]

\* The for loop from message st.idx on, up to the next blocking Do or to
\* the handler's return.
RECURSIVE loop(_, _)
loop(c, st) ==
  IF st.phase = "wait" THEN st
  ELSE IF st.idx > Len(st.messages) THEN encodeResults(st)
  ELSE LET p == generatePrompt(st.messages[st.idx], c.policies, c.prompt_template)
       IN IF p.err
          THEN loop(c, collect(st, analyzeMessageReturn(st.messages[st.idx], NoReply),
                               TraceEntry("prompt", NoReply, FALSE)))
          ELSE IF ~URLParses(c.ollama_url)
          THEN [st EXCEPT !.phase = "panic"]
          ELSE IF requestContext(st)
          THEN loop(c, collect(st, analyzeMessageReturn(st.messages[st.idx], CtxError),
                               TraceEntry("call", CtxError, FALSE)))
          ELSE loop(c, issueGenerate(st))

\* Variant: the empty-list check is missing.
handleAnalyze_noEmptyCheck(c, w, req) ==
  IF req.method # "POST"
  THEN httpError(w, "Method not allowed", StatusMethodNotAllowed)
  ELSE LET d == DecodeRequest(req.body)
           rd == [w EXCEPT !.bodyRead = TRUE]
       IN IF d.err THEN httpError(rd, "Invalid request body", StatusBadRequest)
          ELSE loop(c, [rd EXCEPT !.messages = d.Messages,
                                  !.idx = 1,
                                  !.posts = [i \in 1..Len(d.Messages) |-> 0],
                                  !.phase = "loop"])

handleAnalyze(c, w, req) ==
  IF req.method # "POST"
  THEN httpError(w, "Method not allowed", StatusMethodNotAllowed)
  ELSE LET d == DecodeRequest(req.body)
           rd == [w EXCEPT !.bodyRead = TRUE]
       IN IF d.err THEN httpError(rd, "Invalid request body", StatusBadRequest)
          ELSE IF Len(d.Messages) = 0
          THEN httpError(rd, "Messages array cannot be empty", StatusBadRequest)
          ELSE loop(c, [rd EXCEPT !.messages = d.Messages,
                                  !.idx = 1,
                                  !.posts = [i \in 1..Len(d.Messages) |-> 0],
                                  !.phase = "loop"])

\* handleAnalyze resumed when Do returns reply for call k.
\* Variant: a failed Do is tried once more.
resumeAnalyze_retry(c, st, k, reply) ==
  IF reply.kind # "http" /\ st.posts[k.i] < 2
  THEN [st EXCEPT !.posts[k.i] = @ + 1]
  ELSE loop(c, collect([st EXCEPT !.calls = @ \ {k}, !.phase = "loop"],
                       analyzeMessageReturn(st.messages[k.i], reply),
                       TraceEntry("call", reply, FALSE)))

resumeAnalyze(c, st, k, reply) ==
  loop(c, collect([st EXCEPT !.calls = @ \ {k}, !.phase = "loop"],
                  analyzeMessageReturn(st.messages[k.i], reply),
                  TraceEntry("call", reply, FALSE)))

(* ---------------------------- handleOllamaHealth ---------------------- *)

handleOllamaHealth(c, w, req) ==
  IF ~URLParses(c.ollama_url)
  THEN httpError(w, "creating version request", StatusServiceUnavailable)
  ELSE [w EXCEPT !.vcalls = @ + 1,
                 !.calls = @ \cup {Call("version", 0)},
                 !.phase = "hwait"]

\* handleOllamaHealth resumed when Do returns reply.
\* Variant: the backend status code is not looked at.
resumeHealth_always200(st, k, reply) ==
  LET got == [st EXCEPT !.calls = @ \ {k},
                        !.trace = Append(@, TraceEntry("version", reply, FALSE))]
  IN IF reply.kind # "http"
     THEN httpError(got, "connecting to Ollama", StatusServiceUnavailable)
     ELSE [got EXCEPT !.opened = @ + 1, !.closed = @ + 1,
                      !.status = StatusOK,
                      !.out = Out("text", "ollama: ", 0, reply.payload, <<>>),
                      !.phase = "done"]

resumeHealth(st, k, reply) ==
  LET got == [st EXCEPT !.calls = @ \ {k},
                        !.trace = Append(@, TraceEntry("version", reply, FALSE))]
      rcv == [got EXCEPT !.opened = @ + 1, !.closed = @ + 1]
  IN IF reply.kind # "http"
     THEN httpError(got, "connecting to Ollama", StatusServiceUnavailable)
     ELSE IF reply.code # StatusOK
     THEN [httpError(rcv, "unexpected version status code", StatusBadGateway)
             EXCEPT !.out.code = reply.code, !.out.payload = reply.payload]
     ELSE [rcv EXCEPT !.status = StatusOK,
                      !.out = Out("text", "ollama: ", 0, reply.payload, <<>>),
                      !.phase = "done"]

(* ------------------------------ corsMiddleware ------------------------ *)

CORSHeaders ==
  {"Access-Control-Allow-Origin: *",
   "Access-Control-Allow-Methods: POST, OPTIONS",
   "Access-Control-Allow-Headers: Content-Type"}

\* The handler main wraps for the route.
next(c, w, req) ==
  IF req.route = "/api/health" THEN handleOllamaHealth(c, w, req)
  ELSE handleAnalyze(c, w, req)

\* Variant: OPTIONS is not answered here.
corsMiddleware_fallthrough(c, w, req) ==
  next(c, [w EXCEPT !.headers = @ \cup CORSHeaders], req)

corsMiddleware(c, w, req) ==
  LET hw == [w EXCEPT !.headers = @ \cup CORSHeaders]
  IN IF req.method = "OPTIONS"
     THEN [hw EXCEPT !.status = StatusOK, !.phase = "done"]
     ELSE next(c, hw, req)

\* mux of main: "/" answers itself, the two API routes are CORS-wrapped.
ServeHTTP(c, w, req) ==
  IF req.route = "/"
  THEN [w EXCEPT !.status = StatusOK,
                 !.out = Out("text", "Content moderation service is running", 0, "", <<>>),
                 !.phase = "done"]
  ELSE corsMiddleware(c, w, req)

(* -------------------------------- actions ----------------------------- *)

Init ==
  /\ cfg \in Config
  /\ h = [r \in Reqs |-> Idle]

\* A request from reqs arrives on connection r and is served up to the
\* handler's first backend call or to its return.
ArriveWith(r, reqs) ==
  /\ h[r].phase = "idle"
  /\ \E req \in reqs :
       h' = [h EXCEPT ![r] = ServeHTTP(cfg, [Idle EXCEPT !.req = req], req)]
  /\ UNCHANGED cfg

\* The backend answers the generate call of r with one of replies, or the
\* connection to it fails.
GenerateReplyWith(r, replies) ==
  /\ ~requestContext(h[r])
  /\ \E k \in h[r].calls, reply \in replies :
       /\ k.op = "generate"
       /\ h' = [h EXCEPT ![r] = resumeAnalyze(cfg, h[r], k, reply)]
  /\ UNCHANGED cfg

\* Serial service: a request arrives while no other is being handled.
Arrive(r) ==
  /\ \A q \in Reqs \ {r} : h[q].phase = "idle"
  /\ ArriveWith(r, Requests)

GenerateReply(r) == GenerateReplyWith(r, GenerateReplies)

\* The context of r is done: Do of the generate call returns ctx.Err().
GenerateAbort(r) ==
  /\ requestContext(h[r])
  /\ \E k \in h[r].calls :
       /\ k.op = "generate"
       /\ h' = [h EXCEPT ![r] = resumeAnalyze(cfg, h[r], k, CtxError)]
  /\ UNCHANGED cfg

VersionReply(r) ==
  /\ ~requestContext(h[r])
  /\ \E k \in h[r].calls, reply \in VersionReplies :
       /\ k.op = "version"
       /\ h' = [h EXCEPT ![r] = resumeHealth(h[r], k, reply)]
  /\ UNCHANGED cfg

VersionAbort(r) ==
  /\ requestContext(h[r])
  /\ \E k \in h[r].calls :
       /\ k.op = "version"
       /\ h' = [h EXCEPT ![r] = resumeHealth(h[r], k, CtxError)]
  /\ UNCHANGED cfg

\* The client of r goes away while its handler is blocked in a backend
\* call: net/http cancels the request's context.
Cancel(r) ==
  /\ h[r].phase \in {"wait", "hwait"}
  /\ ~h[r].ctxDone
  /\ h' = [h EXCEPT ![r].ctxDone = TRUE]
  /\ UNCHANGED cfg

\* The handler has returned (or panicked): the connection is free again
\* and everything the request created is gone.
Release(r) ==
  /\ h[r].phase \in {"done", "panic"}
  /\ h' = [h EXCEPT ![r] = Idle]
  /\ UNCHANGED cfg

Next ==
  \E r \in Reqs :
    \/ Arrive(r)
    \/ GenerateReply(r)
    \/ GenerateAbort(r)
    \/ VersionReply(r)
    \/ VersionAbort(r)
    \/ Cancel(r)
    \/ Release(r)

Spec == Init /\ [][Next]_vars

\* The Go runtime delivers a cancelled context's error to a blocked Do;
\* nothing makes the backend answer.
FairSpec ==
  Spec /\ \A r \in Reqs : WF_vars(GenerateAbort(r)) /\ WF_vars(VersionAbort(r))

(* --------------------- overlapping requests --------------------------- *)

\* The requests connection r sends when connections overlap: a health
\* check, or an analyze request of MaxMsgs messages that differs from its
\* neighbour's.
ConcRequests(r) ==
  {[route |-> "/api/health", method |-> "GET",
    body |-> [kind |-> "empty", messages |-> <<>>]],
   [route |-> "/api/analyze", method |-> "POST",
    body |-> [kind |-> "object",
              messages |-> [i \in 1..MaxMsgs |->
                              IF (r + i) % 2 = 0 THEN ShortMessage ELSE LongMessage]]]}

ConcGenerateReplies ==
  {TransportError,
   Reply("http", StatusOK, TRUE, Text("object", "true", "[]"), ""),
   Reply("http", StatusOK, TRUE, Text("object", "false", "[hate,self-harm]"), "")}

ConcInit ==
  /\ cfg = [ollama_url |-> GoodURL, prompt_template |-> PlainTemplate, policies |-> Policies]
  /\ h = [r \in Reqs |-> Idle]

ConcArrive(r) == ArriveWith(r, ConcRequests(r))

ConcGenerateReply(r) == GenerateReplyWith(r, ConcGenerateReplies)

ConcNext ==
  \E r \in Reqs :
    \/ ConcArrive(r)
    \/ ConcGenerateReply(r)
    \/ VersionReply(r)
    \/ Release(r)

ConcSpec == ConcInit /\ [][ConcNext]_vars

(* ------------------------------- properties --------------------------- *)

\* A POST to /api/analyze that passed validation: its input messages.
Validated(st) ==
  /\ st.req.route = "/api/analyze"
  /\ st.req.method = "POST"
  /\ st.req.body.kind = "object"
  /\ Len(st.req.body.messages) > 0

Input(st) == st.req.body.messages

Contents(items) == [i \in 1..Len(items) |-> items[i].content]

\* The moderation text is an object with a boolean safe and a list
\* violated_policies.
WellFormed(text) ==
  text.kind = "object" /\ text.safe \in {"true", "false"} /\ text.vp \in ListToks

Healthy(e) ==
  /\ e.step = "call"
  /\ e.reply.kind = "http"
  /\ e.reply.code = 200
  /\ e.reply.decodable
  /\ WellFormed(e.reply.text)

\* The moderation text cannot be parsed as the result schema: it is not
\* JSON, not an object (or null), or a field has the wrong type.
Unparsable(text) ==
  \/ text.kind \in {"raw", "empty", "array"}
  \/ text.kind = "object" /\ (text.safe = "string" \/ text.vp = "string")

\* The five per-message failures.
Failed(e) ==
  \/ e.step = "prompt"
  \/ e.reply.kind \in {"transport", "ctx"}
  \/ e.reply.kind = "http" /\ e.reply.code # 200
  \/ e.reply.kind = "http" /\ e.reply.code = 200 /\ ~e.reply.decodable
  \/ e.reply.kind = "http" /\ e.reply.code = 200 /\ e.reply.decodable
       /\ Unparsable(e.reply.text)

\* The input messages whose processing succeeded, in input order.
RECURSIVE Survivors(_, _)
Survivors(msgs, trace) ==
  IF msgs = <<>> \/ trace = <<>> THEN <<>>
  ELSE IF Failed(Head(trace)) THEN Survivors(Tail(msgs), Tail(trace))
  ELSE <<Head(msgs)>> \o Survivors(Tail(msgs), Tail(trace))

\* C1: when every message of a validated analyze request got a 200 answer
\* with well-formed moderation JSON, the response is 200 and its array has
\* one entry per input message, in input order, the i-th holding the i-th
\* message and the backend's verdict for it.
C1_HealthyBackendOutput ==
  \A r \in Reqs :
    LET st == h[r]
    IN (/\ st.phase = "done"
        /\ Validated(st)
        /\ \A i \in 1..Len(Input(st)) : i \in DOMAIN st.trace /\ Healthy(st.trace[i]))
       => /\ st.status = 200
          /\ st.out.kind = "json"
          /\ Len(st.out.items) = Len(Input(st))
          /\ \A i \in 1..Len(Input(st)) :
               LET t == st.trace[i].reply.text
               IN st.out.items[i] =
                    [content |-> Input(st)[i],
                     is_safe |-> (t.safe = "true"),
                     violated_policies |-> [null |-> FALSE, items |-> PolicyItems(t.vp)]]

\* A request with two different messages that got two different
\* well-formed verdicts was answered with two entries.
C1_Witness ==
  \E r \in Reqs :
    LET st == h[r]
    IN /\ st.phase = "done"
       /\ Validated(st)
       /\ Len(Input(st)) = 2
       /\ Len(st.trace) = 2
       /\ \A i \in 1..2 : Healthy(st.trace[i])
       /\ Input(st)[1] # Input(st)[2]
       /\ st.trace[1].reply.text # st.trace[2].reply.text
       /\ Len(st.out.items) = 2

\* C2: the response to a validated analyze request is 200 and its array is
\* exactly the input messages whose processing did not fail, in input
\* order, whatever the pattern of failures; it is the empty array when all
\* fail.
C2_FailuresDropOnlyThemselves ==
  \A r \in Reqs :
    LET st == h[r]
    IN (st.phase = "done" /\ Validated(st))
       => /\ st.status = 200
          /\ st.out.kind = "json"
          /\ Len(st.trace) = Len(Input(st))
          /\ Contents(st.out.items) = Survivors(Input(st), st.trace)

\* A request was answered whose first message failed after its backend
\* call and whose second succeeded: the array holds the second alone.
C2_Witness ==
  \E r \in Reqs :
    LET st == h[r]
    IN /\ st.phase = "done"
       /\ Validated(st)
       /\ Len(st.trace) = 2
       /\ Failed(st.trace[1])
       /\ st.trace[1].step = "call"
       /\ ~Failed(st.trace[2])
       /\ Contents(st.out.items) = <<Input(st)[2]>>

\* C3: a POST to /api/analyze with no body, an undecodable body or an
\* empty or absent messages list is answered 400 and no generate call is
\* issued for it.
C3_BadRequest ==
  \A r \in Reqs :
    LET st == h[r]
    IN (/\ st.phase # "idle"
        /\ st.req.route = "/api/analyze"
        /\ st.req.method = "POST"
        /\ (st.req.body.kind # "object" \/ st.req.body.messages = <<>>))
       => /\ st.phase = "done"
          /\ st.status = 400
          /\ st.posts = <<>>
          /\ st.calls = {}
          /\ st.trace = <<>>

C3_Witness ==
  \E r \in Reqs :
    /\ h[r].phase = "done"
    /\ h[r].req.route = "/api/analyze"
    /\ h[r].req.method = "POST"
    /\ h[r].req.body = [kind |-> "object", messages |-> <<>>]
    /\ h[r].status = 400

\* The outcome of a health check that made its version call, against the
\* backend's answer.
HealthOutcome(st) ==
  /\ Len(st.trace) = 1
  /\ LET rep == st.trace[1].reply
     IN /\ rep.kind # "http" => st.status = 503
        /\ (rep.kind = "http" /\ rep.code # 200)
             => /\ st.status = 502
                /\ st.out.code = rep.code
                /\ st.out.payload = rep.payload
        /\ (rep.kind = "http" /\ rep.code = 200)
             => /\ st.status = 200
                /\ st.out.msg = "ollama: "
                /\ st.out.payload = rep.payload

HealthGet(st) ==
  st.phase = "done" /\ st.req.route = "/api/health" /\ st.req.method = "GET"

\* C4 as stated: a GET to /api/health makes exactly one backend version
\* call and answers 503 on a failed connection, 502 with the backend's
\* code and body on a non-200 answer, 200 with the prefixed body otherwise.
C4_Original ==
  \A r \in Reqs :
    HealthGet(h[r]) => (h[r].vcalls = 1 /\ HealthOutcome(h[r]))

\* C4 amended: the same, except that when the version request cannot be
\* built from the configured backend URL the answer is 503 and no backend
\* call is made.
C4_HealthOutcomes ==
  \A r \in Reqs :
    HealthGet(h[r])
      => IF URLParses(cfg.ollama_url)
         THEN h[r].vcalls = 1 /\ HealthOutcome(h[r])
         ELSE h[r].vcalls = 0 /\ h[r].status = 503 /\ h[r].trace = <<>>

\* A health check was answered 502 with the backend's 404 and its body.
C4_Witness ==
  \E r \in Reqs :
    /\ HealthGet(h[r])
    /\ h[r].vcalls = 1
    /\ h[r].status = 502
    /\ h[r].out.code = 404
    /\ h[r].out.payload = "oops"

\* C5: an OPTIONS request to /api/analyze or /api/health is answered 200
\* with Access-Control-Allow-Origin: * and the wrapped handler does not
\* run: the body is not read and no backend call is made.
C5_OptionsShortCircuit ==
  \A r \in Reqs :
    LET st == h[r]
    IN (/\ st.phase # "idle"
        /\ st.req.route \in {"/api/analyze", "/api/health"}
        /\ st.req.method = "OPTIONS")
       => /\ st.phase = "done"
          /\ st.status = 200
          /\ "Access-Control-Allow-Origin: *" \in st.headers
          /\ ~st.bodyRead
          /\ st.out = NoOutput
          /\ st.posts = <<>>
          /\ st.vcalls = 0
          /\ st.calls = {}

\* An OPTIONS request carrying a valid analyze body was answered.
C5_Witness ==
  \E r \in Reqs :
    /\ h[r].phase = "done"
    /\ h[r].req.route = "/api/analyze"
    /\ h[r].req.method = "OPTIONS"
    /\ Len(h[r].req.body.messages) = MaxMsgs
    /\ h[r].status = 200

\* C6 as stated: a message whose moderation text is not valid JSON, or is
\* a JSON object without safe or without violated_policies, is dropped.
C6_MissingFieldDropped ==
  \A r \in Reqs :
    \A i \in DOMAIN h[r].trace :
      LET e == h[r].trace[i]
      IN (/\ e.step = "call"
          /\ e.reply.kind = "http"
          /\ e.reply.code = 200
          /\ e.reply.decodable
          /\ \/ e.reply.text.kind \in {"raw", "empty"}
             \/ e.reply.text.kind = "object"
                  /\ (e.reply.text.safe = "absent" \/ e.reply.text.vp = "absent"))
         => ~e.kept

\* C7: every message causes at most one POST to the generate endpoint,
\* and a message whose prompt cannot be built causes none.
C7_NoRetries ==
  \A r \in Reqs :
    \A i \in DOMAIN h[r].posts :
      /\ h[r].posts[i] <= 1
      /\ (i \in DOMAIN h[r].trace /\ h[r].trace[i].step = "prompt") => h[r].posts[i] = 0

\* A request was answered whose first message had no prompt and whose
\* second met a transport error after its one POST.
C7_Witness ==
  \E r \in Reqs :
    LET st == h[r]
    IN /\ st.phase = "done"
       /\ Len(st.trace) = 2
       /\ st.trace[1].step = "prompt"
       /\ st.trace[2].reply.kind = "transport"
       /\ st.posts = <<0, 1>>

Kept(trace) == {j \in DOMAIN trace : trace[j].kept}

\* C8: with requests overlapping, each request has at most one generate
\* call in flight, the call in flight is for the message right after the
\* ones already appended or dropped, and the output of a request is made
\* of its own messages and their outcomes alone.
C8_Sequential ==
  \A r \in Reqs :
    LET st == h[r]
    IN /\ Cardinality(st.calls) <= 1
       /\ \A k \in st.calls :
            k.op = "generate" => k.i = Len(st.trace) + 1
       /\ Len(st.results) = Cardinality(Kept(st.trace))
       /\ (st.phase = "done" /\ Validated(st))
            => Contents(st.out.items) = Survivors(Input(st), st.trace)

\* Two analyze requests are blocked in generate calls at the same time,
\* one on its first message and one on its second.
C8_Witness ==
  \E r, q \in Reqs :
    /\ r # q
    /\ h[r].calls = {Call("generate", 1)}
    /\ h[q].calls = {Call("generate", 2)}
    /\ Len(h[q].results) = 1

\* C9: once the context of a request is cancelled while one of its
\* backend calls is in flight, the call ends and the handler returns; a
\* call ended that way drops its message.
C9_CancelEndsCall ==
  /\ \A r \in Reqs :
       (h[r].ctxDone /\ h[r].calls # {}) ~> (h[r].calls = {} /\ h[r].phase = "done")
  /\ [](\A r \in Reqs :
          \A i \in DOMAIN h[r].trace :
            h[r].trace[i].reply.kind = "ctx" => ~h[r].trace[i].kept)

\* An analyze request of two messages was cancelled during its first
\* call and returned with an empty array.
C9_Witness ==
  \E r \in Reqs :
    LET st == h[r]
    IN /\ st.phase = "done"
       /\ st.ctxDone
       /\ Validated(st)
       /\ Len(st.trace) = 2
       /\ st.trace[1].reply.kind = "ctx"
       /\ st.posts = <<1, 0>>
       /\ st.out.items = <<>>

\* C10 as stated: whenever no backend call of a request is in flight,
\* every backend response body the request received has been closed.
C10_BodiesClosed ==
  \A r \in Reqs :
    h[r].calls = {} => h[r].closed = h[r].opened

====
